---- MODULE Spec2Model ----
(***************************************************************************)
(* Model of Battleship.py: the Zeno scan circuits built by                 *)
(* build_zeno_circuit, their evolution and measurement by the simulator,   *)
(* the report routine show_histograms and the game loop main_game.         *)
(*                                                                         *)
(* Amplitudes are kept exact.  Every gate of one circuit rotates by        *)
(* +theta or -theta with theta = pi / (2 * n_peeks), so every amplitude is *)
(* a polynomial in c = cos(theta/2) and s = sin(theta/2) with integer      *)
(* coefficients.  Such a polynomial is kept in the normal form             *)
(* p(c) + s * q(c) of the ring Z[c,s]/(c^2 + s^2 - 1): an element is the   *)
(* record [p, q] of two coefficient sequences (lowest degree first, no     *)
(* trailing zero).  Two elements are equal iff they agree for every angle. *)
(***************************************************************************)
EXTENDS Integers, Sequences, FiniteSets, TLC

VARIABLES mode, pc, n_peeks, is_ship, qc, err, start, reg, k, shots, counts,
          player_board, ships_found, ships_hit, row, col, measurement

vars == <<mode, pc, n_peeks, is_ship, qc, err, start, reg, k, shots, counts,
          player_board, ships_found, ships_hit, row, col, measurement>>

gameVars == <<player_board, ships_found, ships_hit, row, col, measurement>>

\* ---------------------------------------------------------------- bounds
\* n_peeks is drawn from -MaxNeg .. MaxN (and N_PEEKS itself); a report
\* samples MaxShots shots where the program samples 1024.
MaxNeg == 1
MaxN == 5
MaxShots == 3

\* ------------------------------------------------------- program constants
N_PEEKS == 20

None == "None"

\* The None of row and col, which are otherwise indices 0 .. 3.
NoIndex == 0 - 1

\* ------------------------------------------- polynomials in c (Seq(Int))
Max2(a, b) == IF a >= b THEN a ELSE b

RECURSIVE Trim(_)
Trim(p) == IF p = <<>> THEN <<>>
           ELSE IF p[Len(p)] = 0 THEN Trim(SubSeq(p, 1, Len(p) - 1))
           ELSE p

Coef(p, i) == IF i <= Len(p) THEN p[i] ELSE 0

PAdd(p, q) == Trim([i \in 1..Max2(Len(p), Len(q)) |-> Coef(p, i) + Coef(q, i)])

PScale(a, p) == IF a = 0 THEN <<>> ELSE [i \in 1..Len(p) |-> a * p[i]]

PShift(p) == IF p = <<>> THEN <<>> ELSE <<0>> \o p

RECURSIVE PMul(_, _)
PMul(p, q) == IF p = <<>> THEN <<>>
              ELSE PAdd(PScale(p[1], q), PShift(PMul(Tail(p), q)))

\* --------------------------------- ring elements p(c) + s*q(c), s^2 = 1-c^2
EZero == [p |-> <<>>, q |-> <<>>]
EOne == [p |-> <<1>>, q |-> <<>>]
ECos == [p |-> <<0, 1>>, q |-> <<>>]
ESin == [p |-> <<>>, q |-> <<1>>]

EAdd(a, b) == [p |-> PAdd(a.p, b.p), q |-> PAdd(a.q, b.q)]

EScale(x, a) == [p |-> PScale(x, a.p), q |-> PScale(x, a.q)]

\* (p1 + s q1)(p2 + s q2) = p1 p2 + (1 - c^2) q1 q2 + s (p1 q2 + q1 p2)
EMul(a, b) ==
    LET qq == PMul(a.q, b.q)
    IN [p |-> PAdd(PMul(a.p, b.p), PAdd(qq, PScale(-1, PShift(PShift(qq))))),
        q |-> PAdd(PMul(a.p, b.q), PMul(a.q, b.p))]

\* ------------------------------------------------------------ the circuit
\* An angle is num * pi / den; theta = np.pi / (2 * n_peeks).
Theta(n) == [num |-> 1, den |-> 2 * n]

NegAngle(a) == [num |-> 0 - a.num, den |-> a.den]

Ry(a, qubit) == [op |-> "ry", angle |-> a, qubit |-> qubit]

Cx(control, target) == [op |-> "cx", control |-> control, target |-> target]

\* One pass of the loop body of the "Live Bomb" branch.
ShipBlock(theta) == <<Ry(theta, 0), Cx(0, 1), Ry(NegAngle(theta), 0)>>

\* One pass of the loop body of the "Dud Bomb" branch.
DudBlock(theta) == <<Ry(theta, 0), Ry(NegAngle(theta), 0)>>

\* A loop that runs one pass short.
RECURSIVE RepeatOneShort(_, _)
RepeatOneShort(body, times) == IF times <= 1 THEN <<>>
                               ELSE RepeatOneShort(body, times - 1) \o body

\* for _ in range(times): append body   (range of a negative count is empty)
RECURSIVE Repeat(_, _)
Repeat(body, times) == IF times <= 0 THEN <<>>
                       ELSE Repeat(body, times - 1) \o body

\* The builder with the test of is_ship inverted.
build_zeno_circuit_inverted(n, ship) ==
    LET theta == Theta(n)
    IN IF ~ship
       THEN [nq |-> 2, gates |-> Repeat(ShipBlock(theta), n), measured |-> <<0, 1>>]
       ELSE [nq |-> 1, gates |-> Repeat(DudBlock(theta), n), measured |-> <<0>>]

\* build_zeno_circuit for n # 0 (n = 0 raises in the division, see Build).
build_zeno_circuit(n, ship) ==
    LET theta == Theta(n)
    IN IF ship
       THEN [nq |-> 2, gates |-> Repeat(ShipBlock(theta), n), measured |-> <<0, 1>>]
       ELSE [nq |-> 1, gates |-> Repeat(DudBlock(theta), n), measured |-> <<0>>]

\* ---------------------------------------------------------- the simulator
\* A register of nq qubits is a function from the basis index 0 .. 2^nq - 1
\* (qubit 0 is the least significant bit) to its amplitude.
RECURSIVE Pow2(_)
Pow2(e) == IF e <= 0 THEN 1 ELSE 2 * Pow2(e - 1)

Dim(nq) == Pow2(nq)

Bit(i, qubit) == (i \div Pow2(qubit)) % 2

Flip(i, qubit) == IF Bit(i, qubit) = 0 THEN i + Pow2(qubit) ELSE i - Pow2(qubit)

Basis(nq, b) == [i \in 0..(Dim(nq) - 1) |-> IF i = b THEN EOne ELSE EZero]

ZeroState(nq) == Basis(nq, 0)

\* The direction of a rotation by angle a: +1 or -1.
Sign(a) == IF (a.num > 0) = (a.den > 0) THEN 1 ELSE -1

\* A rotation by the whole angle instead of half of it:
\* cos(a) = c^2 - s^2, sin(a) = 2 s c.
ApplyRyFullAngle(r, a, qubit) ==
    LET cs == EAdd(EMul(ECos, ECos), EScale(-1, EMul(ESin, ESin)))
        sn == EScale(2 * Sign(a), EMul(ESin, ECos))
    IN [i \in DOMAIN r |->
          IF Bit(i, qubit) = 0
          THEN EAdd(EMul(cs, r[i]), EScale(-1, EMul(sn, r[Flip(i, qubit)])))
          ELSE EAdd(EMul(sn, r[Flip(i, qubit)]), EMul(cs, r[i]))]

\* RY(a) = [[cos(a/2), -sin(a/2)], [sin(a/2), cos(a/2)]] on one qubit.
ApplyRy(r, a, qubit) ==
    LET sn == EScale(Sign(a), ESin)
    IN [i \in DOMAIN r |->
          IF Bit(i, qubit) = 0
          THEN EAdd(EMul(ECos, r[i]), EScale(-1, EMul(sn, r[Flip(i, qubit)])))
          ELSE EAdd(EMul(sn, r[Flip(i, qubit)]), EMul(ECos, r[i]))]

\* A CX that reads the amplitude across the control bit instead of the
\* target bit.
ApplyCxWrongBit(r, control, target) ==
    [i \in DOMAIN r |-> IF Bit(i, control) = 1 THEN r[Flip(i, control)] ELSE r[i]]

\* A CX with control and target exchanged.
ApplyCxSwapped(r, control, target) ==
    [i \in DOMAIN r |-> IF Bit(i, target) = 1 THEN r[Flip(i, control)] ELSE r[i]]

\* CX: the target bit is flipped where the control bit is 1.
ApplyCx(r, control, target) ==
    [i \in DOMAIN r |-> IF Bit(i, control) = 1 THEN r[Flip(i, target)] ELSE r[i]]

ApplyGate(r, g) ==
    IF g.op = "ry" THEN ApplyRy(r, g.angle, g.qubit)
    ELSE ApplyCx(r, g.control, g.target)

\* The gates are applied in order.  (The comparison makes TLC compute each
\* intermediate register before going on.)
RECURSIVE Evolve(_, _)
Evolve(r, gates) ==
    IF gates = <<>> THEN r
    ELSE LET nxt == ApplyGate(r, Head(gates))
         IN IF nxt = nxt THEN Evolve(nxt, Tail(gates)) ELSE r

\* Born rule: the amplitudes are real, the probability is the square.
Prob(r, i) == EMul(r[i], r[i])

RECURSIVE ESum(_, _)
ESum(r, i) == IF i < 0 THEN EZero ELSE EAdd(Prob(r, i), ESum(r, i - 1))

\* The sum of the squared amplitudes.
Norm(r) == ESum(r, Cardinality(DOMAIN r) - 1)

\* The key get_counts gives a basis index: classical bit j holds qubit j and
\* the highest bit is printed first.
BitString(nq, i) == IF nq = 1 THEN <<"0", "1">>[i + 1]
                    ELSE <<"00", "01", "10", "11">>[i + 1]

\* The outcomes one shot can return: those of nonzero probability.  For the
\* half angle pi / (4 * n) in (0, pi/4] both c and s are positive, and the
\* probabilities met here are products of powers of c and s.
Outcomes(nq, r) == {BitString(nq, i) : i \in {j \in DOMAIN r : Prob(r, j) # EZero}}

\* The value of an element at n_peeks = 1, where theta/2 = pi/4 and
\* c = s = 1/sqrt(2): (rat + irr * sqrt(2)) / den, exactly.  With s = c the
\* element is the polynomial r in c alone, and c^(2j) = 1 / 2^j,
\* c^(2j+1) = sqrt(2) / 2^(j+1).
RECURSIVE QuarterPiPart(_, _, _, _)
QuarterPiPart(r, h, i, odd) ==
    IF i > Len(r) THEN 0
    ELSE (IF ((i - 1) % 2 = 1) = odd
          THEN r[i] * Pow2(h - ((i - 1) \div 2) - (IF odd THEN 1 ELSE 0))
          ELSE 0) + QuarterPiPart(r, h, i + 1, odd)

AtQuarterPi(e) ==
    LET r == PAdd(e.p, PShift(e.q))
        h == (Len(r) + 1) \div 2
    IN [rat |-> QuarterPiPart(r, h, 1, FALSE),
        irr |-> QuarterPiPart(r, h, 1, TRUE),
        den |-> Pow2(h)]

\* -------------------------------------------- one circuit, built and run
NSet == ((0 - MaxNeg)..MaxN) \cup {N_PEEKS}

Inc(hist, o) == IF o \in DOMAIN hist THEN [hist EXCEPT ![o] = @ + 1]
                ELSE hist @@ (o :> 1)

NoCounts == [o \in {} |-> 0]

GameIdle ==
    /\ player_board = [cell \in (0..3) \X (0..3) |-> "?"]
    /\ ships_found = 0
    /\ ships_hit = 0
    /\ row = NoIndex
    /\ col = NoIndex
    /\ measurement = None

\* A call build_zeno_circuit(n_peeks, is_ship) about to be made.
InitScan ==
    /\ mode = "scan"
    /\ pc = "call"
    /\ n_peeks \in NSet
    /\ is_ship \in BOOLEAN
    /\ qc = None
    /\ err = None
    /\ start = <<>>
    /\ reg = <<>>
    /\ k = 0
    /\ shots = 0
    /\ counts = NoCounts
    /\ GameIdle

\* The unitary of the ship circuit applied to each basis state.
InitUnitary ==
    /\ mode = "unitary"
    /\ pc = "run"
    /\ n_peeks \in 1..MaxN
    /\ is_ship = TRUE
    /\ qc = build_zeno_circuit(n_peeks, TRUE)
    /\ err = None
    /\ start \in {Basis(qc.nq, b) : b \in 0..(Dim(qc.nq) - 1)}
    /\ reg = start
    /\ k = 0
    /\ shots = 0
    /\ counts = NoCounts
    /\ GameIdle

\* build_zeno_circuit: the division by 2 * n_peeks raises ZeroDivisionError
\* for n_peeks = 0; otherwise the circuit is returned, whatever n_peeks is.
\* The simulator starts every run in the all-zero state.
Build ==
    /\ pc = "call"
    /\ IF n_peeks = 0
       THEN /\ pc' = "raised"
            /\ err' = "ZeroDivisionError"
            /\ UNCHANGED <<qc, start, reg>>
       ELSE /\ pc' = "run"
            /\ qc' = build_zeno_circuit(n_peeks, is_ship)
            /\ start' = ZeroState(qc'.nq)
            /\ reg' = start'
            /\ UNCHANGED err
    /\ UNCHANGED <<mode, n_peeks, is_ship, k, shots, counts>>
    /\ UNCHANGED gameVars

\* The simulator applies the next gate of the circuit.
Step ==
    /\ pc = "run"
    /\ k < Len(qc.gates)
    /\ reg' = ApplyGate(reg, qc.gates[k + 1])
    /\ k' = k + 1
    /\ UNCHANGED <<mode, pc, n_peeks, is_ship, qc, err, start, shots, counts>>
    /\ UNCHANGED gameVars

\* One shot of the final measurement, counted in the histogram.
Shot ==
    /\ pc = "run"
    /\ k = Len(qc.gates)
    /\ shots < MaxShots
    /\ \E o \in Outcomes(qc.nq, reg) : counts' = Inc(counts, o)
    /\ shots' = shots + 1
    /\ UNCHANGED <<mode, pc, n_peeks, is_ship, qc, err, start, reg, k>>
    /\ UNCHANGED gameVars

NextScan == Build \/ Step \/ Shot

SpecScan == InitScan /\ [][NextScan]_vars

\* ------------------------------------------------------------ the game
hidden_board == <<<<0, 1, 0, 0>>,
                  <<0, 1, 0, 0>>,
                  <<0, 0, 0, 0>>,
                  <<1, 0, 0, 0>>>>

Cells == (0..3) \X (0..3)

Hidden(cell) == hidden_board[cell[1] + 1][cell[2] + 1]

\* np.sum(hidden_board)
TOTAL_SHIPS == Cardinality({cell \in Cells : Hidden(cell) = 1})

\* What the player may type: a sequence of characters.  The columns A, B, C
\* and the rows 1, 2, 4 can be addressed (all three ships among them), next
\* to a lower-case column, columns and rows out of range, a row that is no
\* digit, a digit as column, inputs too short and one with a trailing
\* character.
ColChars == {"A", "B", "C", "b", "E", "1"}
RowChars == {"0", "1", "2", "4", "5", "E"}
Inputs == {<<>>, <<"A">>, <<"B", "1", "E">>}
             \cup {<<x, y>> : x \in ColChars, y \in RowChars}

\* ord() of the characters used, after upper().
Upper(ch) == IF ch = "b" THEN "B" ELSE ch

Ord(ch) == CASE ch = "A" -> 65 [] ch = "B" -> 66 [] ch = "C" -> 67
             [] ch = "E" -> 69 [] ch = "b" -> 98
             [] ch = "0" -> 48 [] ch = "1" -> 49 [] ch = "2" -> 50
             [] ch = "4" -> 52 [] ch = "5" -> 53

IsDigit(ch) == ch \in {"0", "1", "2", "4", "5"}

\* parse_input: <<row, col>>, or (None, None) where the code raises
\* (IndexError on a short input, ValueError on int() of a non-digit, the
\* IndexError it raises itself out of range) and catches.
parse_input(user_in) ==
    IF Len(user_in) < 2 \/ ~IsDigit(user_in[2]) THEN <<NoIndex, NoIndex>>
    ELSE LET c == Ord(Upper(user_in[1])) - Ord("A")
             r == (Ord(user_in[2]) - Ord("0")) - 1
         IN IF 0 <= r /\ r < 4 /\ 0 <= c /\ c < 4 THEN <<r, c>>
            ELSE <<NoIndex, NoIndex>>

\* A check that lets an already-scanned cell through.
RejectedOnlyInvalid(rc, board) == rc[1] = NoIndex

\* if row is None or player_board[row, col] != '?': continue
Rejected(rc, board) == rc[1] = NoIndex \/ board[rc] # "?"

\* The mark a measurement writes on the board; "?" for a scan glitch,
\* which writes nothing.
Mark(ship, m) ==
    IF ship
    THEN IF m = "00" THEN "S"
         ELSE IF m = "01" \/ m = "11" THEN "X"
         ELSE "?"
    ELSE IF m = "0" THEN "O" ELSE "?"

\* A counter that counts every scan, water included.
FoundGainAnyScan(ship, m) == IF m \in {"0", "00", "01", "11"} THEN 1 ELSE 0

FoundGain(ship, m) == IF ship /\ m \in {"00", "01", "11"} THEN 1 ELSE 0

HitGain(ship, m) == IF ship /\ m \in {"01", "11"} THEN 1 ELSE 0

\* One shot of the circuit main_game builds for a cell.
ScanCircuit(ship) == build_zeno_circuit(N_PEEKS, ship)

\* The measurements simulator.run(compiled_circuit, shots=1) can give.
ScanOutcomes(ship) ==
    LET circuit == ScanCircuit(ship)
    IN Outcomes(circuit.nq, Evolve(ZeroState(circuit.nq), circuit.gates))

ShipOutcomes == ScanOutcomes(TRUE)

DudOutcomes == ScanOutcomes(FALSE)

InitGame ==
    /\ mode = "game"
    /\ pc = "loop"
    /\ n_peeks = N_PEEKS
    /\ is_ship = FALSE
    /\ qc = None
    /\ err = None
    /\ start = <<>>
    /\ reg = <<>>
    /\ k = 0
    /\ shots = 0
    /\ counts = NoCounts
    /\ GameIdle

\* One pass of the loop of main_game.
Turn ==
    /\ pc = "loop"
    /\ ships_found < TOTAL_SHIPS
    /\ \E user_input \in Inputs :
          LET rc == parse_input(user_input)
          IN /\ row' = rc[1]
             /\ col' = rc[2]
             /\ IF Rejected(rc, player_board)
                THEN UNCHANGED <<is_ship, measurement, player_board,
                                 ships_found, ships_hit>>
                ELSE /\ is_ship' = (Hidden(rc) = 1)
                     /\ \E m \in (IF is_ship' THEN ShipOutcomes ELSE DudOutcomes) :
                           /\ measurement' = m
                           /\ player_board' =
                                IF Mark(is_ship', m) = "?" THEN player_board
                                ELSE [player_board EXCEPT ![rc] = Mark(is_ship', m)]
                           /\ ships_found' = ships_found + FoundGain(is_ship', m)
                           /\ ships_hit' = ships_hit + HitGain(is_ship', m)
    /\ UNCHANGED <<mode, pc, n_peeks, qc, err, start, reg, k, shots, counts>>

\* while ships_found < TOTAL_SHIPS fails: GAME OVER and the score.
GameOver ==
    /\ pc = "loop"
    /\ ~(ships_found < TOTAL_SHIPS)
    /\ pc' = "over"
    /\ UNCHANGED <<mode, n_peeks, is_ship, qc, err, start, reg, k, shots, counts>>
    /\ UNCHANGED gameVars

NextGame == Turn \/ GameOver

SpecGame == InitGame /\ [][NextGame]_vars

Init == InitScan \/ InitUnitary \/ InitGame

Next == Build \/ Step \/ Shot \/ Turn \/ GameOver

Spec == Init /\ [][Next]_vars

\* ======================================================== the properties
\* The register a finished run of build_zeno_circuit(n_peeks, is_ship) holds
\* before the measurement.
Evolved == mode = "scan" /\ pc = "run" /\ k = Len(qc.gates)

ESin4 == EMul(EMul(ESin, ESin), EMul(ESin, ESin))

IsQuarter(e) == AtQuarterPi(e).irr = 0 /\ 4 * AtQuarterPi(e).rat = AtQuarterPi(e).den

\* C1, as stated: for every n_peeks >= 1 the ship circuit gives the outcome
\* "10" probability exactly 0, and no shot returns it.
C1_Original ==
    (Evolved /\ is_ship /\ n_peeks >= 1)
        => (Prob(reg, 2) = EZero /\ "10" \notin DOMAIN counts)

\* C1, amended: for every even n_peeks >= 1 (N_PEEKS = 20 among them) the
\* ship circuit gives "10" probability exactly 0, no shot returns it and
\* main_game never measures it; for every odd n_peeks the probability of
\* "10" is sin(theta/2)^4, which is 1/4 for n_peeks = 1.
C1_Amended ==
    /\ (Evolved /\ is_ship /\ n_peeks >= 1 /\ n_peeks % 2 = 0)
          => (Prob(reg, 2) = EZero /\ "10" \notin DOMAIN counts)
    /\ (Evolved /\ is_ship /\ n_peeks >= 1 /\ n_peeks % 2 = 1)
          => Prob(reg, 2) = ESin4
    /\ (Evolved /\ is_ship /\ n_peeks = 1) => IsQuarter(Prob(reg, 2))
    /\ mode = "game" => measurement # "10"

C1_Witness ==
    Evolved /\ is_ship /\ n_peeks = N_PEEKS /\ shots = MaxShots

\* C2: for every n_peeks >= 1 the dud circuit ends exactly in the all-zero
\* state: "0" has probability 1 and "1" probability 0, a histogram of k shots
\* is {"0": k}, and main_game measures nothing but "0" on an empty cell.
C2_DudIsIdentity ==
    /\ (Evolved /\ ~is_ship /\ n_peeks >= 1)
          => /\ reg = ZeroState(1)
             /\ Prob(reg, 0) = EOne
             /\ Prob(reg, 1) = EZero
             /\ counts = IF shots = 0 THEN NoCounts ELSE ("0" :> shots)
    /\ (mode = "game" /\ ~is_ship) => measurement \in {None, "0"}

C2_Witness ==
    Evolved /\ ~is_ship /\ n_peeks = 3 /\ shots = MaxShots

\* C3: for n_peeks = 1 the ship circuit is RY(pi/2) on qubit 0, CX(0, 1),
\* RY(-pi/2) on qubit 0, and each of the four outcomes has probability
\* exactly 1/4.
C3_UniformAtOne ==
    (Evolved /\ is_ship /\ n_peeks = 1)
        => /\ qc.gates = <<Ry([num |-> 1, den |-> 2], 0), Cx(0, 1),
                           Ry([num |-> -1, den |-> 2], 0)>>
           /\ \A i \in 0..3 : IsQuarter(Prob(reg, i))

C3_Witness ==
    Evolved /\ is_ship /\ n_peeks = 1 /\ DOMAIN counts = {"00", "01", "10"}

\* C4: for every n_peeks >= 1 the circuit is n_peeks copies of the block of
\* its variant and nothing else: 3 * n_peeks gates RY(theta), CX(0, 1),
\* RY(-theta) on 2 qubits, both measured, or 2 * n_peeks gates RY(theta),
\* RY(-theta) on 1 qubit, measured; theta = pi / (2 * n_peeks) throughout.
C4_CircuitShape ==
    (mode = "scan" /\ pc = "run" /\ n_peeks >= 1)
        => LET plus == [num |-> 1, den |-> 2 * n_peeks]
               minus == [num |-> -1, den |-> 2 * n_peeks]
               g == qc.gates
           IN IF is_ship
              THEN /\ qc.nq = 2
                   /\ qc.measured = <<0, 1>>
                   /\ Len(g) = 3 * n_peeks
                   /\ \A j \in 0..(n_peeks - 1) :
                         /\ g[3 * j + 1] = [op |-> "ry", angle |-> plus, qubit |-> 0]
                         /\ g[3 * j + 2] = [op |-> "cx", control |-> 0, target |-> 1]
                         /\ g[3 * j + 3] = [op |-> "ry", angle |-> minus, qubit |-> 0]
              ELSE /\ qc.nq = 1
                   /\ qc.measured = <<0>>
                   /\ Len(g) = 2 * n_peeks
                   /\ \A j \in 0..(n_peeks - 1) :
                         /\ g[2 * j + 1] = [op |-> "ry", angle |-> plus, qubit |-> 0]
                         /\ g[2 * j + 2] = [op |-> "ry", angle |-> minus, qubit |-> 0]

C4_Witness ==
    mode = "scan" /\ pc = "run" /\ is_ship /\ n_peeks = 3 /\ Len(qc.gates) = 9

\* C5, as stated: a call with n_peeks < 1 fails with InvalidRepetitionCount
\* and returns no circuit.
C5_RejectsNonPositive ==
    (mode = "scan" /\ pc # "call" /\ n_peeks < 1)
        => (pc = "raised" /\ err = "InvalidRepetitionCount" /\ qc = None)

\* C6: after every gate of either circuit, for every n_peeks >= 1, the
\* squared amplitudes sum to 1.
C6_Normalized ==
    (mode = "scan" /\ pc = "run" /\ n_peeks >= 1) => Norm(reg) = EOne

C6_Witness ==
    mode = "scan" /\ pc = "run" /\ is_ship /\ n_peeks = 3 /\ k = 4
        /\ reg[3] # EZero

Marked(chars) == Cardinality({cell \in Cells : player_board[cell] \in chars})

\* C8: in main_game ships_found is the number of cells marked S or X,
\* ships_hit the number marked X, 0 <= ships_hit <= ships_found <=
\* TOTAL_SHIPS = 3; the loop is left only with ships_found = TOTAL_SHIPS and
\* every ship cell marked S or X.
C8_Counters ==
    mode = "game"
        => /\ TOTAL_SHIPS = 3
           /\ ships_found = Marked({"S", "X"})
           /\ ships_hit = Marked({"X"})
           /\ 0 <= ships_hit
           /\ ships_hit <= ships_found
           /\ ships_found <= TOTAL_SHIPS
           /\ pc = "over"
                 => /\ ships_found = TOTAL_SHIPS
                    /\ \A cell \in Cells :
                          Hidden(cell) = 1 => player_board[cell] \in {"S", "X"}

C8_Witness ==
    mode = "game" /\ pc = "over" /\ Marked({"O"}) = 2

\* The pass that ends in the primed state was no scan: the input was
\* invalid, the cell already scanned, or the measurement a scan glitch.
NoScan ==
    \/ row' = NoIndex
    \/ player_board[<<row', col'>>] # "?"
    \/ (is_ship' /\ measurement' \notin {"00", "01", "11"})
    \/ (~is_ship' /\ measurement' # "0")

\* C9: a pass of the loop changes player_board only at the cell the input
\* parses to and only if that cell is "?", writing S or X only on a ship
\* and O only on water; a pass with an invalid input, an already-scanned
\* cell or a scan glitch changes neither the board nor the counters.
C9_Frame ==
    [][(mode = "game" /\ pc = "loop" /\ pc' = "loop")
         => /\ \A cell \in Cells :
                  player_board'[cell] # player_board[cell]
                    => /\ cell = <<row', col'>>
                       /\ player_board[cell] = "?"
                       /\ \/ player_board'[cell] \in {"S", "X"} /\ Hidden(cell) = 1
                          \/ player_board'[cell] = "O" /\ Hidden(cell) = 0
            /\ NoScan => UNCHANGED <<player_board, ships_found, ships_hit>>]_vars

C9_Witness ==
    mode = "game" /\ pc = "loop" /\ ships_found = 2 /\ Marked({"O"}) = 1
        /\ row # NoIndex /\ player_board[<<row, col>>] = "O" /\ is_ship

\* C10: the block RY(theta), CX(0, 1), RY(-theta) applied twice restores
\* every basis state (hence every state), so for every even n_peeks the
\* ship circuit ends exactly in the all-zero state, "00" with probability 1;
\* with N_PEEKS = 20 main_game never measures "01" or "11", marks no cell X
\* and ships_hit stays 0.
C10_Involution ==
    /\ (mode = "unitary" /\ k % 6 = 0) => reg = start
    /\ (Evolved /\ is_ship /\ n_peeks >= 1 /\ n_peeks % 2 = 0)
          => (reg = ZeroState(2) /\ Prob(reg, 0) = EOne)
    /\ N_PEEKS % 2 = 0
    /\ mode = "game"
          => /\ ships_hit = 0
             /\ measurement \notin {"01", "11"}
             /\ Marked({"X"}) = 0

C10_Witness ==
    mode = "unitary" /\ k = 6 /\ n_peeks = 3 /\ start = Basis(2, 3)

====
